---- MODULE Spec2Model ----
(***************************************************************************)
(* libsmartcols table printing (libsmartcols/src/table_print.c):           *)
(*   - count_column_width: the width measurer of one column,               *)
(*   - recount_widths: the layout solver fitting columns to the terminal,  *)
(*   - scols_print_table / scols_print_table_to_string: the entry points,  *)
(*   - print_tree / print_tree_line: the emission order of tree output.    *)
(*                                                                         *)
(* Widths are display widths in terminal cells.  A cell of the table is    *)
(* represented by what mbs_safe_width(line_get_data(...)) returns for it:  *)
(* its display width, or the sentinel (size_t)-1 for a broken multibyte    *)
(* string (Broken).  width_hint is a double; it is kept as an exact        *)
(* fraction num/den so that the comparisons of the code are exact.         *)
(***************************************************************************)
EXTENDS Integers, Sequences, FiniteSets, TLC

VARIABLES
    tb,          \* struct libscols_table: flags, terminal geometry, inputs of the call
    cl,          \* tb_columns: sequence of struct libscols_column
    call,        \* the API call in progress: entry point, environment, return values
    pc,          \* position in scols_print_table / recount_widths / print_tree
    width,       \* recount_widths: local "output width"
    trunc_only,  \* recount_widths: local flag of the shrink loop
    extremes,    \* recount_widths: local count of extreme columns
    hist,        \* history: widths after the seed and after each finished call
    forest,      \* tb_lines with parent / ln_branch links (tree output)
    walk         \* print_tree: iterator, recursion stack and emitted rows

vars == <<tb, cl, call, pc, width, trunc_only, extremes, hist, forest, walk>>

----------------------------------------------------------------------------
(* Bounds of the model *)

\* number of successive print calls on the same table
MaxRuns == 2

\* lines of the table measured by count_column_width alone (SpecMeasure)
MeasureLines == 5

\* lines of a forest printed by print_tree (SpecTree)
TreeLines == 4

\* errno values returned negated by the entry points
EINVAL == 22
ENOMEM == 12
ENOSYS == 38

\* default terminal width of scols_print_table
DefaultTermwidth == 80

\* (size_t) -1, what mbs_safe_width returns for a broken multibyte string
Broken == -1

\* a header cell without data
NoData == -2

----------------------------------------------------------------------------
(* Inputs *)

\* width_hint values: none (0), a fraction of the terminal (1/2), absolute (3)
Hints == { [num |-> 0, den |-> 1], [num |-> 1, den |-> 2], [num |-> 3, den |-> 1] }

HintLt1(h) == h.num < h.den
HintGt1(h) == h.num > h.den
HintGe1(h) == h.num >= h.den
\* (size_t) cl->width_hint
HintTrunc(h) == h.num \div h.den

\* a column as scols_table_new_column leaves it: derived fields zeroed
NewColumn(trunc, tree, noext, strict, right, hint, header, cells) ==
    [ trunc |-> trunc, tree |-> tree, noextremes |-> noext,
      strict_width |-> strict, right |-> right,
      width_hint |-> hint, header |-> header, cells |-> cells,
      width |-> 0, width_min |-> 0, width_max |-> 0, width_avg |-> 0,
      is_extreme |-> 0 ]

----------------------------------------------------------------------------
(* count_column_width *)

\* lines 335-338: the display width of one cell; a broken string counts as 0
cell_len(raw) == IF raw = Broken THEN 0 ELSE raw

\* line 342: the cell is an extreme field of an extreme column and is ignored
is_extreme_field(c, len) == c.is_extreme = 1 /\ len > c.width_avg * 2

\* lines 332-350: the loop over the lines of the table;
\* acc = [width, width_max, sum, count]
RECURSIVE measure_lines(_, _, _)
measure_lines(c, i, acc) ==
    IF i > Len(c.cells) THEN acc
    ELSE LET len  == cell_len(c.cells[i])
             wmax == IF len > acc.width_max THEN len ELSE acc.width_max
         IN  IF is_extreme_field(c, len)
             THEN measure_lines(c, i + 1, [acc EXCEPT !.width_max = wmax])
             ELSE measure_lines(c, i + 1,
                    [ width     |-> IF len > acc.width THEN len ELSE acc.width,
                      width_max |-> wmax,
                      sum       |-> IF c.noextremes THEN acc.sum + len ELSE acc.sum,
                      count     |-> IF c.noextremes THEN acc.count + 1 ELSE acc.count ])

\* average_of with the extreme mark set at width_max >= 2 * width_avg
average_of_ge(c, acc) ==
    IF acc.count # 0 /\ c.width_avg = 0
    THEN LET avg == acc.sum \div acc.count
         IN  [ width_avg  |-> avg,
               is_extreme |-> IF acc.width_max >= avg * 2 THEN 1 ELSE c.is_extreme ]
    ELSE [ width_avg |-> c.width_avg, is_extreme |-> c.is_extreme ]

\* lines 352-357: the average and the extreme mark, set by the first measurement
average_of(c, acc) ==
    IF acc.count # 0 /\ c.width_avg = 0
    THEN LET avg == acc.sum \div acc.count
         IN  [ width_avg  |-> avg,
               is_extreme |-> IF acc.width_max > avg * 2 THEN 1 ELSE c.is_extreme ]
    ELSE [ width_avg |-> c.width_avg, is_extreme |-> c.is_extreme ]

\* lines 359-371: minimal width from the header, then the two enlargements
enlarge_width(c, w, wmin) ==
    IF w < wmin /\ ~c.strict_width THEN wmin
    ELSE IF HintGe1(c.width_hint) /\ w < HintTrunc(c.width_hint)
            /\ wmin < HintTrunc(c.width_hint)
         THEN HintTrunc(c.width_hint)
         ELSE w

\* lines 317-372
count_column_width(c) ==
    LET acc  == measure_lines(c, 1, [ width |-> 0, width_max |-> c.width_max,
                                      sum |-> 0, count |-> 0 ])
        av   == average_of(c, acc)
        wmin == IF c.header # NoData THEN c.header ELSE c.width_min
    IN  [ c EXCEPT !.width      = enlarge_width(c, acc.width, wmin),
                   !.width_min  = wmin,
                   !.width_max  = acc.width_max,
                   !.width_avg  = av.width_avg,
                   !.is_extreme = av.is_extreme ]

\* is_last_column(tb, cl) for the column at position i of columns
is_last_column(columns, i) == i = Len(columns)

\* sum of the column widths plus one separator between adjacent columns
RECURSIVE SumWidths(_, _)
SumWidths(columns, i) ==
    IF i > Len(columns) THEN 0
    ELSE columns[i].width + (IF is_last_column(columns, i) THEN 0 ELSE 1)
         + SumWidths(columns, i + 1)

RECURSIVE CountExtremes(_, _)
CountExtremes(columns, i) ==
    IF i > Len(columns) THEN 0
    ELSE columns[i].is_extreme + CountExtremes(columns, i + 1)

----------------------------------------------------------------------------
(* recount_widths: the phases as operators on (columns, width, extremes) *)

\* lines 385-392: measure every column, accumulate width and extremes
seed_columns(columns) ==
    LET measured == [ i \in 1..Len(columns) |-> count_column_width(columns[i]) ]
    IN  [ cl |-> measured, width |-> SumWidths(measured, 1),
          extremes |-> CountExtremes(measured, 1) ]

\* lines 401-414: re-measure the extreme columns; st = [cl, width, extremes]
RECURSIVE reduce_extremes(_, _)
reduce_extremes(st, i) ==
    IF i > Len(st.cl) THEN st
    ELSE IF st.cl[i].is_extreme = 0 THEN reduce_extremes(st, i + 1)
    ELSE LET org_width == st.cl[i].width
             c2        == count_column_width(st.cl[i])
         IN  reduce_extremes(
                [ cl       |-> [st.cl EXCEPT ![i] = c2],
                  width    |-> IF org_width > c2.width
                               THEN st.width - (org_width - c2.width) ELSE st.width,
                  extremes |-> IF org_width > c2.width
                               THEN st.extremes ELSE st.extremes - 1 ], i + 1)

\* lines 435-437: how much an extreme column takes.  size_t arithmetic is
\* modulo 2^64: when cl->width > cl->width_max the difference wraps, and the
\* two additions of lines 439-440 wrap back, so the residue is kept here by
\* its signed representative (a negative add is the wrapped value).
extreme_add(c, w, termwidth) ==
    LET add == termwidth - w
    IN  IF add # 0 /\ c.width + add > c.width_max
        THEN c.width_max - c.width ELSE add

\* lines 423-444: enlarge the extreme columns; st = [cl, width, stop]
RECURSIVE enlarge_extremes(_, _, _)
enlarge_extremes(st, i, termwidth) ==
    IF i > Len(st.cl) \/ st.stop THEN st
    ELSE IF st.cl[i].is_extreme = 0 THEN enlarge_extremes(st, i + 1, termwidth)
    ELSE LET add == extreme_add(st.cl[i], st.width, termwidth)
             w2  == st.width + add
         IN  enlarge_extremes(
                [ cl    |-> [st.cl EXCEPT ![i].width = @ + add],
                  width |-> w2,
                  stop  |-> w2 = termwidth ], i + 1, termwidth)

\* maxout_sweep without the break of lines 454-455
RECURSIVE maxout_sweep_nobreak(_, _, _)
maxout_sweep_nobreak(st, i, termwidth) ==
    IF i > Len(st.cl) THEN st
    ELSE maxout_sweep_nobreak(
            [ cl    |-> [st.cl EXCEPT ![i].width = @ + 1],
              width |-> st.width + 1,
              stop  |-> FALSE ], i + 1, termwidth)

\* lines 450-456: one sweep of the max-out loop; st = [cl, width, stop]
RECURSIVE maxout_sweep(_, _, _)
maxout_sweep(st, i, termwidth) ==
    IF i > Len(st.cl) \/ st.stop THEN st
    ELSE maxout_sweep(
            [ cl    |-> [st.cl EXCEPT ![i].width = @ + 1],
              width |-> st.width + 1,
              stop  |-> st.width + 1 = termwidth ], i + 1, termwidth)

\* shrink_skips without the exemption of line 482
shrink_skips_no_absolute(c, trunc) ==
    \/ c.tree
    \/ trunc = 1 /\ ~c.trunc
    \/ c.width = c.width_min

\* lines 482-489: the column is skipped by the shrink sweep
shrink_skips(c, trunc) ==
    \/ HintGt1(c.width_hint) /\ ~c.trunc
    \/ c.tree
    \/ trunc = 1 /\ ~c.trunc
    \/ c.width = c.width_min

\* shrink_amount with the relative floor of line 493 compared by >=
shrink_amount_below_floor(c, w, trunc, termwidth) ==
    (IF HintLt1(c.width_hint) /\ c.width > 0 /\ w > 0
        /\ c.width * c.width_hint.den >= c.width_hint.num * termwidth
     THEN 1 ELSE 0)
    +
    (IF HintGt1(c.width_hint) /\ c.width > 0 /\ w > 0 /\ trunc = 0
     THEN 1 ELSE 0)

\* lines 492-502: how much one visited column is decremented
shrink_amount(c, w, trunc, termwidth) ==
    (IF HintLt1(c.width_hint) /\ c.width > 0 /\ w > 0
        /\ c.width * c.width_hint.den > c.width_hint.num * termwidth
     THEN 1 ELSE 0)
    +
    (IF HintGt1(c.width_hint) /\ c.width > 0 /\ w > 0 /\ trunc = 0
     THEN 1 ELSE 0)

\* lines 479-504: one sweep of the shrink loop; st = [cl, width]
RECURSIVE shrink_sweep(_, _, _, _)
shrink_sweep(st, i, trunc, termwidth) ==
    IF i > Len(st.cl) \/ st.width <= termwidth THEN st
    ELSE IF shrink_skips(st.cl[i], trunc)
         THEN shrink_sweep(st, i + 1, trunc, termwidth)
         ELSE LET d == shrink_amount(st.cl[i], st.width, trunc, termwidth)
              IN  shrink_sweep([ cl    |-> [st.cl EXCEPT ![i].width = @ - d],
                                 width |-> st.width - d ],
                               i + 1, trunc, termwidth)


----------------------------------------------------------------------------
(* The tables and calls the model starts from *)

\* display widths of the cells of a table
CellWidths == {0, 5, 8}

\* header widths; NoData is a column whose header has no data
HeaderWidths == {NoData, 1, 6}

\* get_terminal_width() on a terminal
TermWidths == {10, 14}

\* the cells of one column, one per line.  The result of count_column_width
\* does not depend on the order of the lines (it takes a maximum, a sum and
\* a count), so rows are drawn in ascending order.
CellRows(n) == { r \in [1..n -> CellWidths] : \A i \in 1..(n - 1) : r[i] <= r[i + 1] }

\* rows whose cells all have the same width
UniformRows(n) == { [i \in 1..n |-> w] : w \in CellWidths }

\* any column over n lines.  strict_width is read only at line 364 when the
\* measured width is below the header width, so it is varied only for
\* columns with the wide header.  Only a no-extremes column keeps more of its
\* cells than their maximum (lines 344-347), so the other columns have
\* uniform rows.
Columns(n) ==
    { c \in { NewColumn(t, tr, ne, st, FALSE, h, hd, cells) :
                t \in BOOLEAN, tr \in BOOLEAN, ne \in BOOLEAN, st \in BOOLEAN,
                h \in Hints, hd \in HeaderWidths, cells \in CellRows(n) } :
        /\ c.strict_width => c.header = 6
        /\ ~c.noextremes => c.cells \in UniformRows(n) }

\* a plain column: no tree, no-extremes or strict-width flag, no header
\* data, every cell 5 wide
PlainColumns(n) ==
    { NewColumn(t, FALSE, FALSE, FALSE, FALSE, h, NoData, [i \in 1..n |-> 5]) :
        t \in BOOLEAN, h \in Hints }

\* the right flag is read by recount_widths only for the last column
\* (line 463), so it is varied there only
WithRight(columns, r) ==
    [ i \in 1..Len(columns) |->
        IF i = Len(columns) THEN [columns[i] EXCEPT !.right = r] ELSE columns[i] ]

\* tables of no, one or two columns; of two columns at least one is plain
Tables(n) ==
    { WithRight(t, r) :
        t \in {<<>>} \cup { <<c>> : c \in Columns(n) }
              \cup { <<c, p>> : c \in Columns(n), p \in PlainColumns(n) }
              \cup { <<p, c>> : c \in Columns(n), p \in PlainColumns(n) },
        r \in BOOLEAN }

\* lines of the tables of the layout model
TableLines == 2

NoForest == [ parent |-> <<>>, ln_branch |-> <<>> ]
NoWalk   == [ itr |-> 0, stack |-> <<>>, out |-> <<>> ]

NewHist == [ run |-> 1, natural |-> <<>>, final |-> <<>>, stalled |-> FALSE ]

Widths(columns) == [ i \in 1..Len(columns) |-> columns[i].width ]

\* the table exists: struct libscols_table after scols_new_table and the
\* setters; is_term and termwidth are set by scols_print_table
InitTable(columns, maxout, format) ==
    /\ cl = columns
    /\ tb = [ maxout |-> maxout, format |-> format, is_term |-> 0, termwidth |-> 0 ]

\* a call: the entry point, what the environment answers, and the results
NewCall(api, tb_null, tty, termcols, malloc_ok, memstream) ==
    [ api |-> api, tb_null |-> tb_null, tty |-> tty, termcols |-> termcols,
      malloc_ok |-> malloc_ok, memstream |-> memstream,
      inner_called |-> FALSE, inner |-> 0, status |-> 0 ]

EntryPc(api) == IF api = "to_string" THEN "to_string" ELSE "print_table"

InitLayoutVars ==
    /\ width = 0 /\ trunc_only = 1 /\ extremes = 0
    /\ hist = NewHist
    /\ forest = NoForest /\ walk = NoWalk

\* a human-readable table printed to a terminal or to a file, all resources
\* available
InitPrint ==
    /\ \E t \in Tables(TableLines), maxout \in BOOLEAN, tty \in BOOLEAN,
          w \in TermWidths :
          /\ tty \/ (w = 10 /\ ~maxout)   \* neither is read when not a terminal
          /\ InitTable(t, maxout, "human")
          /\ call = NewCall("print", FALSE, tty, w, TRUE, "ok")
    /\ pc = "print_table"

\* the other calls: raw and export output, the in-memory variant, a missing
\* table, failing allocations; on tables of at most one plain column
InitOther ==
    /\ \E t \in {<<>>} \cup { <<c>> : c \in PlainColumns(TableLines) },
          format \in {"human", "raw", "export"},
          api \in {"print", "to_string"}, tb_null \in BOOLEAN,
          malloc_ok \in BOOLEAN, memstream \in {"ok", "fail", "none"} :
          /\ api = "print" => memstream = "ok"     \* read by to_string only
          /\ tb_null => t = <<>> /\ format = "human" /\ malloc_ok
          /\ InitTable(t, FALSE, format)
          /\ call = NewCall(api, tb_null, TRUE, 10, malloc_ok, memstream)
          /\ pc = EntryPc(api)

Init == InitLayoutVars /\ (InitPrint \/ InitOther)

----------------------------------------------------------------------------
(* Actions *)

\* scols_print_table returns rc: to its caller, or into
\* scols_print_table_to_string (line 623)
ReturnInner(rc) ==
    IF call.api = "print"
    THEN /\ call' = [call EXCEPT !.inner_called = TRUE, !.inner = rc, !.status = rc]
         /\ pc' = "returned"
    ELSE /\ call' = [call EXCEPT !.inner_called = TRUE, !.inner = rc]
         /\ pc' = "to_string_ret"

\* scols_print_table_to_string, lines 608-622 (and 627-628 without
\* HAVE_OPEN_MEMSTREAM)
StringEntry ==
    /\ pc = "to_string"
    /\ IF call.memstream = "none"
       THEN call' = [call EXCEPT !.status = -ENOSYS] /\ pc' = "returned"
       ELSE IF call.tb_null
       THEN call' = [call EXCEPT !.status = -EINVAL] /\ pc' = "returned"
       ELSE IF call.memstream = "fail"
       THEN call' = [call EXCEPT !.status = -ENOMEM] /\ pc' = "returned"
       ELSE call' = call /\ pc' = "print_table"
    /\ UNCHANGED <<tb, cl, width, trunc_only, extremes, hist, forest, walk>>

\* lines 567-571, for a table whose termreduce is 0
terminal_width(tty, termcols) ==
    LET w == IF tty THEN termcols ELSE 0
    IN  IF w <= 0 THEN DefaultTermwidth ELSE w

\* scols_print_table, lines 553-588 (assertions compiled out)
PrintEntry ==
    /\ pc = "print_table"
    /\ IF call.tb_null
       THEN ReturnInner(-1) /\ tb' = tb
       ELSE /\ tb' = [tb EXCEPT !.is_term = IF call.tty THEN 1 ELSE 0,
                                !.termwidth = terminal_width(call.tty, call.termcols)]
            /\ IF ~call.malloc_ok
               THEN ReturnInner(-ENOMEM)
               ELSE /\ call' = call
                    /\ pc' = IF tb.format = "human" THEN "seed" ELSE "emit"
    /\ UNCHANGED <<cl, width, trunc_only, extremes, hist, forest, walk>>

\* where recount_widths goes with output width w: lines 397-399, 417, 475
AfterSeed(w, ext) ==
    IF w > tb.termwidth /\ ext # 0 THEN "reduce"
    ELSE IF w < tb.termwidth THEN "grow"
    ELSE IF w > tb.termwidth THEN "shrink"
    ELSE "emit"

\* recount_widths, lines 377-395
Seed ==
    /\ pc = "seed"
    /\ LET st == seed_columns(cl)
       IN  /\ cl' = st.cl
           /\ width' = st.width
           /\ extremes' = st.extremes
           /\ hist' = [hist EXCEPT !.natural = Widths(st.cl), !.stalled = FALSE]
           /\ pc' = IF tb.is_term = 0 THEN "emit" ELSE AfterSeed(st.width, st.extremes)
    /\ trunc_only' = 1
    /\ UNCHANGED <<tb, call, forest, walk>>

\* recount_widths, lines 397-415
Reduce ==
    /\ pc = "reduce"
    /\ LET st == reduce_extremes([cl |-> cl, width |-> width, extremes |-> extremes], 1)
       IN  /\ cl' = st.cl
           /\ width' = st.width
           /\ extremes' = st.extremes
           /\ pc' = AfterSeed(st.width, 0)
    /\ UNCHANGED <<tb, call, trunc_only, hist, forest, walk>>

\* recount_widths, lines 417-447 and 458: the extreme columns take the space
Grow ==
    /\ pc = "grow"
    /\ LET st == IF extremes # 0
                 THEN enlarge_extremes([cl |-> cl, width |-> width, stop |-> FALSE],
                                       1, tb.termwidth)
                 ELSE [cl |-> cl, width |-> width, stop |-> FALSE]
       IN  /\ cl' = st.cl
           /\ width' = st.width
           /\ pc' = IF st.width < tb.termwidth
                    THEN (IF tb.maxout THEN "maxout" ELSE "spill")
                    ELSE IF st.width > tb.termwidth THEN "shrink" ELSE "emit"
    /\ UNCHANGED <<tb, call, trunc_only, extremes, hist, forest, walk>>

\* recount_widths, lines 449-457: one iteration of the outer loop
MaxoutSweep ==
    /\ pc = "maxout"
    /\ LET st == maxout_sweep([cl |-> cl, width |-> width, stop |-> FALSE],
                              1, tb.termwidth)
       IN  /\ cl' = st.cl
           /\ width' = st.width
           /\ pc' = IF st.width < tb.termwidth THEN "maxout" ELSE "emit"
    /\ UNCHANGED <<tb, call, trunc_only, extremes, hist, forest, walk>>

\* recount_widths, lines 458-467: the last column takes the rest.  Of an
\* empty column list, list_entry(tb->tb_columns.prev) is no column: the
\* flag read at line 463 is whatever the table's memory holds there.
Spill ==
    /\ pc = "spill"
    /\ \E right \in BOOLEAN :
          /\ Len(cl) > 0 => right = cl[Len(cl)].right
          /\ IF ~right /\ tb.termwidth - width > 0
             THEN /\ cl' = [ i \in 1..Len(cl) |->
                               IF i = Len(cl)
                               THEN [cl[i] EXCEPT !.width = @ + (tb.termwidth - width)]
                               ELSE cl[i] ]
                  /\ width' = tb.termwidth
             ELSE UNCHANGED <<cl, width>>
    /\ pc' = "emit"
    /\ UNCHANGED <<tb, call, trunc_only, extremes, hist, forest, walk>>

\* recount_widths, lines 475-511: one iteration of the outer loop
ShrinkSweep ==
    /\ pc = "shrink"
    /\ LET st == shrink_sweep([cl |-> cl, width |-> width], 1, trunc_only,
                              tb.termwidth)
       IN  /\ cl' = st.cl
           /\ width' = st.width
           /\ IF st.width = width
              THEN IF trunc_only = 1
                   THEN trunc_only' = 0 /\ pc' = "shrink" /\ hist' = hist
                   ELSE /\ trunc_only' = trunc_only /\ pc' = "emit"
                        /\ hist' = [hist EXCEPT !.stalled = TRUE]
              ELSE /\ trunc_only' = trunc_only
                   /\ hist' = hist
                   /\ pc' = IF st.width > tb.termwidth THEN "shrink" ELSE "emit"
    /\ UNCHANGED <<tb, call, extremes, forest, walk>>

\* scols_print_table, lines 590-596: the rows are printed, 0 is returned
Emit ==
    /\ pc = "emit"
    /\ ReturnInner(0)
    /\ hist' = [hist EXCEPT !.final = Append(@, Widths(cl))]
    /\ UNCHANGED <<tb, cl, width, trunc_only, extremes, forest, walk>>

\* scols_print_table_to_string, lines 623-626
StringReturn ==
    /\ pc = "to_string_ret"
    /\ call' = [call EXCEPT !.status = 0]
    /\ pc' = "returned"
    /\ UNCHANGED <<tb, cl, width, trunc_only, extremes, hist, forest, walk>>

\* the caller prints the same table again: nothing of the table, its
\* columns, lines or the terminal has changed
Again ==
    /\ pc = "returned"
    /\ call.status = 0
    /\ hist.run < MaxRuns
    /\ hist' = [hist EXCEPT !.run = @ + 1]
    /\ call' = [call EXCEPT !.inner_called = FALSE, !.inner = 0, !.status = 0]
    /\ pc' = EntryPc(call.api)
    /\ UNCHANGED <<tb, cl, width, trunc_only, extremes, forest, walk>>

Next ==
    \/ StringEntry
    \/ PrintEntry
    \/ Seed
    \/ Reduce
    \/ Grow
    \/ MaxoutSweep
    \/ Spill
    \/ ShrinkSweep
    \/ Emit
    \/ StringReturn
    \/ Again

Spec == Init /\ [][Next]_vars

----------------------------------------------------------------------------
(* Properties of the layout solver and of the entry points *)

\* recount_widths has returned (scols_print_table is about to print)
LayoutDone == pc = "emit" /\ tb.format = "human"

OnTerminal == tb.is_term = 1

\* the achieved output width: the widths plus one separator between columns
OutputWidth == SumWidths(cl, 1)

\* C1: after recount_widths returns on a terminal, every column without the
\* strict-width flag is at least as wide as its header (width >= width_min).
C1_MinimumFloor ==
    (LayoutDone /\ OnTerminal) =>
        \A i \in 1..Len(cl) : ~cl[i].strict_width => cl[i].width >= cl[i].width_min

\* C2: for a table of at least one column on a terminal, when recount_widths
\* returns the output width is at most termwidth or the shrink loop ended
\* by a stall; with max-out set and no stall it equals termwidth.
C2_BudgetRespect ==
    (LayoutDone /\ OnTerminal /\ Len(cl) >= 1) =>
        /\ OutputWidth <= tb.termwidth \/ hist.stalled
        /\ (tb.maxout /\ ~hist.stalled) => OutputWidth = tb.termwidth

\* C2 witness: a max-out table of two columns whose seed was too wide has
\* been shrunk, without stall, to the terminal width
C2_Witness ==
    /\ LayoutDone /\ OnTerminal /\ Len(cl) = 2 /\ tb.maxout /\ ~hist.stalled
    /\ hist.natural[1] + 1 + hist.natural[2] > tb.termwidth
    /\ OutputWidth = tb.termwidth

\* C2 witness of the other branch: the shrink loop stalled above the budget
C2_StallReached ==
    LayoutDone /\ OnTerminal /\ hist.stalled /\ OutputWidth > tb.termwidth

\* C3: a second print of an unchanged table leaves every column with the
\* width the first print gave it.
C3_Idempotent ==
    (tb.format = "human" /\ Len(hist.final) >= 2) => hist.final[2] = hist.final[1]

\* C4: after recount_widths returns, a tree column is no narrower than the
\* width the first count_column_width of that run gave it.
C4_TreeImmunity ==
    LayoutDone =>
        \A i \in 1..Len(cl) : cl[i].tree => cl[i].width >= hist.natural[i]

\* the shrink-to-fit scenario of C5: terminal width 10, max-out off, column 0
\* with trunc, hint 0.5 and natural width 8, column 1 without trunc and
\* natural width 5, headers narrower than the data, no other flag.
C5_Scenario ==
    /\ tb.format = "human" /\ tb.is_term = 1 /\ tb.termwidth = 10 /\ ~tb.maxout
    /\ Len(cl) = 2 /\ Len(hist.natural) = 2
    /\ cl[1].trunc /\ cl[1].width_hint = [num |-> 1, den |-> 2]
    /\ hist.natural[1] = 8
    /\ ~cl[2].trunc /\ hist.natural[2] = 5
    /\ \A i \in 1..2 : /\ ~cl[i].tree /\ ~cl[i].noextremes /\ ~cl[i].strict_width
                       /\ cl[i].width_min < hist.natural[i]

\* C5, with the widths of the specification: the scenario ends with column 0
\* at 4 and column 1 at 5
C5_Original ==
    (C5_Scenario /\ LayoutDone) => cl[1].width = 4 /\ cl[2].width = 5

\* the headers are at most 4 wide: width_min does not stop column 0 above
\* its relative floor nor column 1 above 4
C5_NarrowHeaders == \A i \in 1..Len(cl) : cl[i].width_min <= 4

\* C5, with the widths of the code, for headers at most 4 wide: the
\* truncate-only pass takes
\* column 0 from 8 to 5, its floor 0.5 * 10, and leaves column 1 alone; the
\* unrestricted pass then takes one cell from column 1 when that column
\* has no hint (5 + 1 + 4 = 10), and stalls at 5 + 1 + 5 = 11 when it has a
\* fractional hint 0.5 or an absolute hint.
C5_ShrinkScenario ==
    (C5_Scenario /\ C5_NarrowHeaders) =>
        /\ (pc = "shrink" /\ trunc_only = 1) => cl[2].width = 5
        /\ (pc = "shrink" /\ trunc_only = 0) => cl[1].width = 5
        /\ LayoutDone =>
             /\ cl[1].width = 5
             /\ cl[2].width_hint.num = 0 =>
                  cl[2].width = 4 /\ OutputWidth = 10 /\ ~hist.stalled
             /\ cl[2].width_hint.num # 0 =>
                  cl[2].width = 5 /\ OutputWidth = 11 /\ hist.stalled

\* C5 witness: the scenario with a header of one cell on column 0 and no
\* hint on column 1 has ended with the widths 5 and 4
C5_Witness ==
    /\ C5_Scenario /\ C5_NarrowHeaders /\ LayoutDone /\ cl[2].width_hint.num = 0
    /\ cl[1].header = 1
    /\ cl[1].width = 5 /\ cl[2].width = 4

\* C8: scols_print_table_to_string returns a negative status whenever the
\* scols_print_table it calls fails, 0 only when that print succeeded, and a
\* negative status for an absent table.
C8_StringStatus ==
    (pc = "returned" /\ call.api = "to_string") =>
        /\ (call.inner_called /\ call.inner < 0) => call.status < 0
        /\ call.status = 0 => (call.inner_called /\ call.inner = 0)
        /\ call.tb_null => call.status < 0

\* the output width recount_widths holds when the shrink sweep reaches
\* column i: every earlier decrement of the sweep has been subtracted
RECURSIVE Decrements(_, _, _)
Decrements(before, after, i) ==
    IF i = 0 THEN 0
    ELSE (before[i].width - after[i].width) + Decrements(before, after, i - 1)

\* C9, with the skip rule of the specification: in the unrestricted pass
\* every column with an absolute hint that is not the tree column and not
\* at width_min is decremented by one while the output is too wide, with or
\* without the trunc flag; in the truncate-only pass no column without the
\* trunc flag is decremented.
C9_Original ==
    [][ pc = "shrink" =>
          \A i \in 1..Len(cl) :
             /\ ( /\ trunc_only = 0 /\ HintGt1(cl[i].width_hint)
                  /\ ~cl[i].tree /\ cl[i].width # cl[i].width_min /\ cl[i].width > 0
                  /\ width - Decrements(cl, cl', i - 1) > tb.termwidth )
                => cl'[i].width = cl[i].width - 1
             /\ (trunc_only = 1 /\ ~cl[i].trunc) => cl'[i].width = cl[i].width
      ]_vars

\* C9, with the skip rule of line 482: a column with an absolute hint and
\* without the trunc flag is decremented in neither pass; one with the trunc flag is exempt in the
\* truncate-only pass and, in the unrestricted pass, is decremented by one
\* in each sweep that reaches it while the output is too wide, unless it is
\* the tree column, is at width_min or has width 0.  In the truncate-only
\* pass no column without the trunc flag is decremented.
C9_AbsoluteHintShrink ==
    [][ pc = "shrink" =>
          \A i \in 1..Len(cl) :
             /\ (HintGt1(cl[i].width_hint) /\ ~cl[i].trunc)
                => cl'[i].width = cl[i].width
             /\ (trunc_only = 1 /\ HintGt1(cl[i].width_hint))
                => cl'[i].width = cl[i].width
             /\ ( /\ trunc_only = 0 /\ HintGt1(cl[i].width_hint) /\ cl[i].trunc
                  /\ ~cl[i].tree /\ cl[i].width # cl[i].width_min /\ cl[i].width > 0
                  /\ width - Decrements(cl, cl', i - 1) > tb.termwidth )
                => cl'[i].width = cl[i].width - 1
             /\ (trunc_only = 1 /\ ~cl[i].trunc) => cl'[i].width = cl[i].width
      ]_vars

\* C9 witness: the unrestricted pass has decremented a truncatable column
\* with an absolute hint, next to a column with an absolute hint and no
\* trunc flag that is still as wide as it was seeded
C9_Witness ==
    /\ pc \in {"shrink", "emit"} /\ trunc_only = 0 /\ tb.is_term = 1 /\ Len(cl) = 2
    /\ \E i, j \in 1..Len(cl) :
          /\ HintGt1(cl[i].width_hint) /\ cl[i].trunc /\ cl[i].is_extreme = 0
          /\ cl[i].width < hist.natural[i]
          /\ HintGt1(cl[j].width_hint) /\ ~cl[j].trunc
          /\ cl[j].width = hist.natural[j] /\ cl[j].width > cl[j].width_min

\* C7: recount_widths terminates: neither loop can spin.  The solver is
\* deterministic and every variable it reads is part of the state, so a
\* sweep that leaves the state as it found it is repeated for ever; the
\* claim requires that from the head of the max-out loop and of the shrink
\* loop the next sweep changes the state.
C7_Terminates == pc \in {"maxout", "shrink"} => ENABLED <<Next>>_vars

----------------------------------------------------------------------------
(* count_column_width alone: the first and the second measurement *)

\* what mbs_safe_width returns for the cells measured here
MeasureWidths == {0, 3, 30, Broken}

MeasureRows == UNION { [1..n -> MeasureWidths] : n \in 0..MeasureLines }

InitMeasure ==
    /\ \E t \in BOOLEAN, ne \in BOOLEAN, h \in Hints, hd \in {NoData, 4},
          cells \in MeasureRows :
          cl = << NewColumn(t, FALSE, ne, FALSE, FALSE, h, hd, cells) >>
    /\ tb = [ maxout |-> FALSE, format |-> "human", is_term |-> 0, termwidth |-> 0 ]
    /\ call = NewCall("print", FALSE, FALSE, 0, TRUE, "ok")
    /\ pc = "measure"
    /\ InitLayoutVars

\* count_column_width(tb, cl, buf, bufsz) on the column; hist.run counts
\* the measurements
Measure ==
    /\ pc = "measure"
    /\ hist.run <= MaxRuns
    /\ cl' = << count_column_width(cl[1]) >>
    /\ hist' = [hist EXCEPT !.run = @ + 1,
                            !.final = Append(@, count_column_width(cl[1]).width)]
    /\ UNCHANGED <<tb, call, pc, width, trunc_only, extremes, forest, walk>>

NextMeasure == Measure

SpecMeasure == InitMeasure /\ [][NextMeasure]_vars

\* the display widths of the cells of a column, a broken string counting 0
DisplayWidths(c) ==
    { IF c.cells[i] = Broken THEN 0 ELSE c.cells[i] : i \in 1..Len(c.cells) }

RECURSIVE SumOfCells(_, _)
SumOfCells(c, i) ==
    IF i > Len(c.cells) THEN 0
    ELSE (IF c.cells[i] = Broken THEN 0 ELSE c.cells[i]) + SumOfCells(c, i + 1)

MaxOf(S) == IF S = {} THEN 0 ELSE CHOOSE m \in S : \A x \in S : x <= m

\* floor(sum of the widths / number of lines)
AverageOfCells(c) == SumOfCells(c, 1) \div Len(c.cells)

\* neither the header nor the hint enlarges a measured width w
NoBump(c, w) ==
    /\ c.header = NoData \/ c.header <= w
    /\ HintLt1(c.width_hint) \/ HintTrunc(c.width_hint) <= w

\* C10: the first measurement of a no-extremes column sets width and
\* width_max to the widest cell, width_avg to floor(sum / lines) and
\* is_extreme exactly when width_max > 2 * width_avg; the second measurement
\* of a column flagged extreme sets width to the widest cell not above
\* 2 * width_avg and leaves width_avg, width_max and is_extreme as they
\* were.  Cells {3, 3, 3, 3, 30} give 30, 8, extreme, then 3.
C10_TwoPassExtreme ==
    LET c    == cl[1]
        all  == MaxOf(DisplayWidths(c))
        avg  == AverageOfCells(c)
        kept == MaxOf({ w \in DisplayWidths(c) : w <= 2 * avg })
    IN  (pc = "measure" /\ c.noextremes /\ Len(c.cells) >= 1) =>
          /\ (hist.run = 2 /\ NoBump(c, all)) =>
                /\ c.width = all /\ c.width_max = all /\ c.width_avg = avg
                /\ c.is_extreme = 1 <=> all > 2 * avg
          /\ (hist.run = 3 /\ c.is_extreme = 1 /\ NoBump(c, kept)) =>
                /\ c.width = kept
                /\ c.width_max = all /\ c.width_avg = avg /\ all > 2 * avg
          /\ ( /\ Len(c.cells) = 5 /\ c.header = NoData /\ c.width_hint.num = 0
               /\ Cardinality({ i \in 1..5 : c.cells[i] = 3 }) = 4
               /\ Cardinality({ i \in 1..5 : c.cells[i] = 30 }) = 1 ) =>
                /\ hist.run = 2 => c.width = 30 /\ c.width_avg = 8 /\ c.is_extreme = 1
                /\ hist.run = 3 => c.width = 3 /\ c.width_avg = 8 /\ c.is_extreme = 1
                                   /\ c.width_max = 30

\* C10 witness: the column {3, 3, 3, 3, 30} after its second measurement
C10_Witness ==
    /\ pc = "measure" /\ hist.run = 3 /\ cl[1].noextremes
    /\ cl[1].cells = <<3, 3, 3, 3, 30>> /\ cl[1].header = NoData
    /\ cl[1].width_hint.num = 0
    /\ hist.final = <<30, 3>> /\ cl[1].is_extreme = 1 /\ cl[1].width_avg = 8

----------------------------------------------------------------------------
(* print_tree: the order of the rows of tree output *)

\* line ln reaches a parentless line in at most k steps up the parent links
RECURSIVE ReachesRoot(_, _, _)
ReachesRoot(parent, ln, k) ==
    IF parent[ln] = 0 THEN TRUE
    ELSE IF k = 0 THEN FALSE
    ELSE ReachesRoot(parent, parent[ln], k - 1)

\* the members of S as a sequence, in the order given by rank
RECURSIVE InOrder(_, _)
InOrder(S, rank) ==
    IF S = {} THEN <<>>
    ELSE LET m == CHOOSE x \in S : \A y \in S : rank[x] <= rank[y]
         IN  <<m>> \o InOrder(S \ {m}, rank)

\* the forests over lines 1..n (the table order): parent[ln] = 0 for a
\* line without parent; ln_branch[ln] lists the children of ln in the order
\* scols_line_add_child linked them, which is any order
Forests(n) ==
    { [ parent    |-> par,
        ln_branch |-> [ ln \in 1..n |->
                          InOrder({ c \in 1..n : par[c] = ln }, rank) ] ] :
        par  \in { f \in [1..n -> 0..n] : \A ln \in 1..n : ReachesRoot(f, ln, n) },
        rank \in { r \in [1..n -> 1..n] : \A a, b \in 1..n : a # b => r[a] # r[b] } }

InitTree ==
    /\ \E n \in 0..TreeLines : forest \in Forests(n)
    /\ walk = [ itr |-> 1, stack |-> <<>>, out |-> <<>> ]
    /\ cl = <<>>
    /\ tb = [ maxout |-> FALSE, format |-> "human", is_term |-> 0, termwidth |-> 0 ]
    /\ call = NewCall("print", FALSE, FALSE, 0, TRUE, "ok")
    /\ pc = "print_tree"
    /\ width = 0 /\ trunc_only = 1 /\ extremes = 0
    /\ hist = NewHist

NLines == Len(forest.parent)

\* has_parent that never skips a line
has_parent_never(f, ln) == FALSE

\* line 302: the line has a parent and is skipped by print_tree
has_parent(f, ln) == f.parent[ln] # 0

\* print_line (line 278): the row of ln is written to the stream
print_line(out, ln) == Append(out, ln)

\* print_tree, lines 300-305: the next line of the table; a line without
\* parent is printed by print_tree_line, whose frame is pushed
PrintTreeNext ==
    /\ pc = "print_tree"
    /\ walk.stack = <<>>
    /\ walk.itr <= NLines
    /\ IF has_parent(forest, walk.itr)
       THEN walk' = [walk EXCEPT !.itr = @ + 1]
       ELSE walk' = [ itr   |-> walk.itr + 1,
                      stack |-> << [ln |-> walk.itr, p |-> 1] >>,
                      out   |-> print_line(walk.out, walk.itr) ]
    /\ UNCHANGED <<tb, cl, call, pc, width, trunc_only, extremes, hist, forest>>

\* print_tree_line, lines 284-288: the next child of the line on top of
\* the stack is printed by a recursive call
PrintTreeChild ==
    /\ pc = "print_tree"
    /\ walk.stack # <<>>
    /\ LET top   == walk.stack[Len(walk.stack)]
           kids  == forest.ln_branch[top.ln]
       IN  /\ top.p <= Len(kids)
           /\ walk' = [ itr   |-> walk.itr,
                        stack |-> Append([walk.stack EXCEPT ![Len(walk.stack)].p = @ + 1],
                                         [ln |-> kids[top.p], p |-> 1]),
                        out   |-> print_line(walk.out, kids[top.p]) ]
    /\ UNCHANGED <<tb, cl, call, pc, width, trunc_only, extremes, hist, forest>>

\* print_tree_line, lines 280-281 and 289: no child is left, the call returns
PrintTreeReturn ==
    /\ pc = "print_tree"
    /\ walk.stack # <<>>
    /\ LET top == walk.stack[Len(walk.stack)]
       IN  /\ top.p > Len(forest.ln_branch[top.ln])
           /\ walk' = [walk EXCEPT !.stack = SubSeq(@, 1, Len(@) - 1)]
    /\ UNCHANGED <<tb, cl, call, pc, width, trunc_only, extremes, hist, forest>>

\* print_tree, line 306: the iterator is exhausted
PrintTreeEnd ==
    /\ pc = "print_tree"
    /\ walk.stack = <<>>
    /\ walk.itr > NLines
    /\ pc' = "printed"
    /\ UNCHANGED <<tb, cl, call, width, trunc_only, extremes, hist, forest, walk>>

NextTree == PrintTreeNext \/ PrintTreeChild \/ PrintTreeReturn \/ PrintTreeEnd

SpecTree == InitTree /\ [][NextTree]_vars

\* a is a proper ancestor of c
RECURSIVE IsAncestor(_, _, _)
IsAncestor(a, c, k) ==
    IF forest.parent[c] = 0 \/ k = 0 THEN FALSE
    ELSE forest.parent[c] = a \/ IsAncestor(a, forest.parent[c], k - 1)

\* the lines of the subtree of ln
Subtree(ln) == {ln} \cup { c \in 1..NLines : IsAncestor(ln, c, NLines) }

\* the position of the row of ln in the output
Pos(ln) == CHOOSE k \in 1..Len(walk.out) : walk.out[k] = ln

\* C6: the body rows of tree output are a pre-order traversal: every line
\* once, the roots in table order, every line before its descendants, the
\* children of a line in ln_branch order, the rows of a subtree contiguous.
C6_TreeOrder ==
    pc = "printed" =>
        /\ Len(walk.out) = NLines
        /\ \A ln \in 1..NLines : \E k \in 1..Len(walk.out) : walk.out[k] = ln
        /\ \A r1, r2 \in 1..NLines :
              (forest.parent[r1] = 0 /\ forest.parent[r2] = 0 /\ r1 < r2)
                 => Pos(r1) < Pos(r2)
        /\ \A c \in 1..NLines :
              forest.parent[c] # 0 => Pos(forest.parent[c]) < Pos(c)
        /\ \A ln \in 1..NLines :
              \A i, j \in 1..Len(forest.ln_branch[ln]) :
                 i < j => Pos(forest.ln_branch[ln][i]) < Pos(forest.ln_branch[ln][j])
        /\ \A ln \in 1..NLines :
              { walk.out[k] : k \in Pos(ln)..(Pos(ln) + Cardinality(Subtree(ln)) - 1) }
                 = Subtree(ln)

\* C6 witness: a forest of four lines has been printed in which a child
\* precedes its parent in the table, a line has two children linked against
\* table order, and a grandchild exists
C6_Witness ==
    /\ pc = "printed" /\ NLines = 4 /\ Len(walk.out) = 4
    /\ \E c \in 1..4 : forest.parent[c] > c
    /\ \E ln \in 1..4 : /\ Len(forest.ln_branch[ln]) = 2
                        /\ forest.ln_branch[ln][1] > forest.ln_branch[ln][2]
    /\ \E c \in 1..4 : forest.parent[c] # 0 /\ forest.parent[forest.parent[c]] # 0

====
